---- MODULE Spec2Model ----
(***************************************************************************)
(* dbug: a label-scoped, filterable, colourised console logger.            *)
(* Model of src/src/lib.rs (Logger, parse_filter, should_log, the colour   *)
(* assigner) and of the call patterns of src/src/main.rs.                  *)
(*                                                                         *)
(* Strings are sequences of one-character strings, so that split, trim,    *)
(* starts_with, ends_with and slicing are computed as the code computes    *)
(* them.                                                                   *)
(***************************************************************************)
EXTENDS Integers, Sequences, FiniteSets, TLC

VARIABLES
  env,       \* the process environment's DEBUG: a VarError or a string
  hashKey,   \* which function DefaultHasher computes (fixed for the run)
  loggers,   \* the Logger values constructed so far, in construction order
  closure,   \* the closure the host holds: Some(index of the Logger it borrows)
  now,       \* the monotonic clock (Instant), in ticks
  sink,      \* stdout: the line println! wrote last, None before the first
  dropped,   \* history: Some(i) when the last step was a log call on i that returned early
  pc,        \* position of the filter-evaluation run: "start", "parsed", "done"
  in_label,  \* filter-evaluation run: the label given to Logger::new
  rules,     \* filter-evaluation run: the Vec parse_filter returned
  verdict    \* filter-evaluation run: what should_log returned

vars == <<env, hashKey, loggers, closure, now, sink, dropped, pc, in_label, rules, verdict>>

(***************************************************************************)
(* Bounds of the model.                                                    *)
(***************************************************************************)
MaxLoggers == 2
MaxTime == 2
TicksPerMs == 2
MaxSpecLen == 4
MaxLabelLen == 2

(***************************************************************************)
(* Strings.                                                                *)
(***************************************************************************)
Str(n, alphabet) == UNION {[1..k -> alphabet] : k \in 0..n}

Whitespace == {" ", "\t"}

starts_with(s, p) == Len(p) <= Len(s) /\ SubSeq(s, 1, Len(p)) = p

ends_with(s, p) == Len(p) <= Len(s) /\ SubSeq(s, Len(s) - Len(p) + 1, Len(s)) = p

contains(s, c) == \E k \in 1..Len(s) : s[k] = c

\* str::split on a one-character pattern: always at least one piece, empty
\* pieces kept.
RECURSIVE split(_, _)
split(s, c) ==
  IF ~contains(s, c) THEN <<s>>
  ELSE LET k == CHOOSE j \in 1..Len(s) : s[j] = c /\ \A h \in 1..(j - 1) : s[h] # c
       IN  <<SubSeq(s, 1, k - 1)>> \o split(SubSeq(s, k + 1, Len(s)), c)

RECURSIVE trim_start(_)
trim_start(s) ==
  IF s # <<>> /\ Head(s) \in Whitespace THEN trim_start(Tail(s)) ELSE s

RECURSIVE trim_end(_)
trim_end(s) ==
  IF s # <<>> /\ s[Len(s)] \in Whitespace THEN trim_end(SubSeq(s, 1, Len(s) - 1)) ELSE s

trim(s) == trim_end(trim_start(s))

\* .map(|s| s.trim()).filter(|s| !s.is_empty()).collect()
RECURSIVE trimmed_non_empty(_)
trimmed_non_empty(pieces) ==
  IF pieces = <<>> THEN <<>>
  ELSE LET t == trim(Head(pieces))
       IN  (IF t = <<>> THEN <<>> ELSE <<t>>) \o trimmed_non_empty(Tail(pieces))

Digits == <<"0", "1", "2", "3", "4", "5", "6", "7", "8", "9">>

\* Display of an unsigned integer, as format!("{}", n) writes it.
RECURSIVE to_decimal(_)
to_decimal(n) ==
  IF n < 10 THEN <<Digits[n + 1]>> ELSE to_decimal(n \div 10) \o <<Digits[(n % 10) + 1]>>

(***************************************************************************)
(* Filter engine.                                                          *)
(***************************************************************************)
VarError == {"NotPresent", "NotUnicode"}

Ok(v) == <<"Ok", v>>

Err(e) == <<"Err", e>>

\* parse_filter, on what std::env::var("DEBUG") returned.
parse_filter(var) ==
  IF var[1] = "Err" THEN <<>>
  ELSE LET debug == var[2]
       IN  IF contains(debug, " ") THEN trimmed_non_empty(split(debug, " "))
           ELSE IF contains(debug, ",") THEN trimmed_non_empty(split(debug, ","))
           ELSE <<debug>>

\* First loop of should_log: some token makes it return false.
negated(filter, raw_label) ==
  \E k \in 1..Len(filter) :
    LET f == filter[k]
    IN  \/ /\ starts_with(f, <<"-">>)
           /\ ~ends_with(f, <<"*">>)
           /\ SubSeq(f, 2, Len(f)) = raw_label
        \/ /\ starts_with(f, <<"-">>)
           /\ ends_with(f, <<"*">>)
           /\ starts_with(raw_label, SubSeq(f, 2, Len(f) - 1))

\* included with a token without a trailing '*' also taken as a prefix.
included_prefix(filter, raw_label) ==
  \E k \in 1..Len(filter) :
    LET f == filter[k]
    IN  \/ starts_with(raw_label, f)
        \/ /\ ends_with(f, <<"*">>)
           /\ starts_with(raw_label, SubSeq(f, 1, Len(f) - 1))
        \/ f = <<"*">>

\* Second loop of should_log: some token makes it return true.
included(filter, raw_label) ==
  \E k \in 1..Len(filter) :
    LET f == filter[k]
    IN  \/ raw_label = f
        \/ /\ ends_with(f, <<"*">>)
           /\ starts_with(raw_label, SubSeq(f, 1, Len(f) - 1))
        \/ f = <<"*">>

\* should_log with the two loops in the other order: a positive match returns
\* true before any negation is looked at.
should_log_inclusion_first(filter, raw_label) ==
  IF included(filter, raw_label) THEN TRUE ELSE FALSE

should_log(filter, raw_label) ==
  IF negated(filter, raw_label) THEN FALSE ELSE included(filter, raw_label)

(***************************************************************************)
(* Colour assigner.                                                        *)
(***************************************************************************)
COLORS ==
  << <<"#","0","0","0","0","C","C">>,
     <<"#","0","0","0","0","F","F">>,
     <<"#","0","0","3","3","C","C">>,
     <<"#","0","0","3","3","F","F">>,
     <<"#","0","0","6","6","C","C">>,
     <<"#","0","0","6","6","F","F">>,
     <<"#","0","0","9","9","C","C">>,
     <<"#","0","0","9","9","F","F">>,
     <<"#","0","0","C","C","0","0">>,
     <<"#","0","0","C","C","3","3">>,
     <<"#","0","0","C","C","6","6">>,
     <<"#","0","0","C","C","9","9">>,
     <<"#","0","0","C","C","C","C">>,
     <<"#","0","0","C","C","F","F">>,
     <<"#","3","3","0","0","C","C">>,
     <<"#","3","3","0","0","F","F">>,
     <<"#","3","3","3","3","C","C">>,
     <<"#","3","3","3","3","F","F">>,
     <<"#","3","3","6","6","C","C">>,
     <<"#","3","3","6","6","F","F">>,
     <<"#","3","3","9","9","C","C">>,
     <<"#","3","3","9","9","F","F">>,
     <<"#","3","3","C","C","0","0">>,
     <<"#","3","3","C","C","3","3">>,
     <<"#","3","3","C","C","6","6">>,
     <<"#","3","3","C","C","9","9">>,
     <<"#","3","3","C","C","C","C">>,
     <<"#","3","3","C","C","F","F">>,
     <<"#","6","6","0","0","C","C">>,
     <<"#","6","6","0","0","F","F">>,
     <<"#","6","6","3","3","C","C">>,
     <<"#","6","6","3","3","F","F">>,
     <<"#","6","6","C","C","0","0">>,
     <<"#","6","6","C","C","3","3">>,
     <<"#","9","9","0","0","C","C">>,
     <<"#","9","9","0","0","F","F">>,
     <<"#","9","9","3","3","C","C">>,
     <<"#","9","9","3","3","F","F">>,
     <<"#","9","9","C","C","0","0">>,
     <<"#","9","9","C","C","3","3">>,
     <<"#","C","C","0","0","0","0">>,
     <<"#","C","C","0","0","3","3">>,
     <<"#","C","C","0","0","6","6">>,
     <<"#","C","C","0","0","9","9">>,
     <<"#","C","C","0","0","C","C">>,
     <<"#","C","C","0","0","F","F">>,
     <<"#","C","C","3","3","0","0">>,
     <<"#","C","C","3","3","3","3">>,
     <<"#","C","C","3","3","6","6">>,
     <<"#","C","C","3","3","9","9">>,
     <<"#","C","C","3","3","C","C">>,
     <<"#","C","C","3","3","F","F">>,
     <<"#","C","C","6","6","0","0">>,
     <<"#","C","C","6","6","3","3">>,
     <<"#","C","C","9","9","0","0">>,
     <<"#","C","C","9","9","3","3">>,
     <<"#","C","C","C","C","0","0">>,
     <<"#","C","C","C","C","3","3">>,
     <<"#","F","F","0","0","0","0">>,
     <<"#","F","F","0","0","3","3">>,
     <<"#","F","F","0","0","6","6">>,
     <<"#","F","F","0","0","9","9">>,
     <<"#","F","F","0","0","C","C">>,
     <<"#","F","F","0","0","F","F">>,
     <<"#","F","F","3","3","0","0">>,
     <<"#","F","F","3","3","3","3">>,
     <<"#","F","F","3","3","6","6">>,
     <<"#","F","F","3","3","9","9">>,
     <<"#","F","F","3","3","C","C">>,
     <<"#","F","F","3","3","F","F">>,
     <<"#","F","F","6","6","0","0">>,
     <<"#","F","F","6","6","3","3">>,
     <<"#","F","F","9","9","0","0">>,
     <<"#","F","F","9","9","3","3">>,
     <<"#","F","F","C","C","0","0">>,
     <<"#","F","F","C","C","3","3">> >>

HexDigits == <<"0", "1", "2", "3", "4", "5", "6", "7", "8", "9", "A", "B", "C", "D", "E", "F">>

hex_value(c) == (CHOOSE k \in 1..Len(HexDigits) : HexDigits[k] = c) - 1

\* u8::from_str_radix(s, 16) on a two-character slice: an Err on a character that
\* is no hex digit.
from_str_radix(s) ==
  IF \A k \in 1..Len(s) : \E d \in 1..Len(HexDigits) : HexDigits[d] = s[k]
  THEN Ok(Len(HexDigits) * hex_value(s[1]) + hex_value(s[2]))
  ELSE Err("ParseIntError")

RECURSIVE trim_start_matches(_, _)
trim_start_matches(s, c) ==
  IF s # <<>> /\ Head(s) = c THEN trim_start_matches(Tail(s), c) ELSE s

\* scale_to_ansi with its six bands numbered from one.
scale_to_ansi_from_one(value) ==
  IF value <= 47 THEN 1
  ELSE IF value <= 114 THEN 2
  ELSE IF value <= 154 THEN 3
  ELSE IF value <= 194 THEN 4
  ELSE IF value <= 234 THEN 5
  ELSE 6

scale_to_ansi(value) ==
  IF value <= 47 THEN 0
  ELSE IF value <= 114 THEN 1
  ELSE IF value <= 154 THEN 2
  ELSE IF value <= 194 THEN 3
  ELSE IF value <= 234 THEN 4
  ELSE 5

\* The arithmetic of rgb_to_ansi256 before it is narrowed to u8.
rgb_to_ansi256_wide(r, g, b) ==
  IF r = g /\ g = b
  THEN IF r < 8 THEN 16
       ELSE IF r > 248 THEN 231
       ELSE 232 + ((r - 8) * 24) \div 247
  ELSE 16 + 36 * scale_to_ansi(r) + 6 * scale_to_ansi(g) + scale_to_ansi(b)

\* u8 arithmetic: the result modulo 2^8.
rgb_to_ansi256(r, g, b) == rgb_to_ansi256_wide(r, g, b) % 256

ansi_256_from_hex(hex_in) ==
  LET hex == trim_start_matches(hex_in, "#")
      r == from_str_radix(SubSeq(hex, 1, 2))
      g == from_str_radix(SubSeq(hex, 3, 4))
      b == from_str_radix(SubSeq(hex, 5, 6))
  IN  IF r[1] = "Err" THEN r
      ELSE IF g[1] = "Err" THEN g
      ELSE IF b[1] = "Err" THEN b
      ELSE Ok(rgb_to_ansi256(r[2], g[2], b[2]))

unwrap_or(result, default) == IF result[1] = "Ok" THEN result[2] ELSE default

CharCodes == <<"a", "b", "-", "*", ":", " ", ",", "\t">>

char_code(c) == CHOOSE k \in 1..Len(CharCodes) : CharCodes[k] = c

RECURSIVE label_code(_)
label_code(input) ==
  IF input = <<>> THEN 0
  ELSE (label_code(SubSeq(input, 1, Len(input) - 1)) * 31 + char_code(input[Len(input)])) % 65536

\* DefaultHasher::new(); input.hash(); finish(): a fixed function of the input
\* alone. Which function is left open by hashKey, fixed for the whole run.
hasher_finish(input) == hashKey + label_code(input)

hex_index_of(input) == hasher_finish(input) % Len(COLORS)

xterm_color_index_for_string(input) ==
  unwrap_or(ansi_256_from_hex(COLORS[hex_index_of(input) + 1]), 123)

\* format!("\x1b[1;38;5;{}m{}\x1b[0m", color, prefix)
colorize(color, prefix) ==
  <<"\\x1b", "[", "1", ";", "3", "8", ";", "5", ";">> \o to_decimal(color)
    \o <<"m">> \o prefix \o <<"\\x1b", "[", "0", "m">>

(***************************************************************************)
(* Logger.                                                                 *)
(***************************************************************************)
None == <<>>

Some(t) == <<t>>

\* Logger::new. parent is history: the index of the Logger extend was called on,
\* 0 for a Logger made by new; debug is history: DEBUG as parse_filter read it.
Logger_new(label, parent) ==
  LET color == xterm_color_index_for_string(label)
  IN  [ raw_label |-> label,
        label     |-> colorize(color, label),
        filter    |-> parse_filter(env),
        color     |-> color,
        last_log  |-> None,
        parent    |-> parent,
        debug     |-> env ]

\* extend handing the parent's timing state to the child.
extended_inherits_timing(i, extension) ==
  [Logger_new(loggers[i].raw_label \o <<":">> \o extension, i)
     EXCEPT !.last_log = loggers[i].last_log]

\* Logger::extend: Logger::new(&format!("{}:{}", self.raw_label, extension))
extended(i, extension) ==
  Logger_new(loggers[i].raw_label \o <<":">> \o extension, i)

\* should_log reading DEBUG again at every call.
permitted_rereads_env(i) == should_log(parse_filter(env), loggers[i].raw_label)

\* self.should_log() as log calls it
permitted(i) == should_log(loggers[i].filter, loggers[i].raw_label)

\* as_millis rounding to the nearest millisecond.
as_millis_rounded(d) == (2 * d + TicksPerMs) \div (2 * TicksPerMs)

\* Duration::as_millis of a difference of two Instants given in ticks
as_millis(d) == d \div TicksPerMs

\* The elapsed suffix of log.
ms_diff_of(i, time) ==
  IF loggers[i].last_log # None
  THEN colorize(loggers[i].color,
                <<"+">> \o to_decimal(as_millis(time - loggers[i].last_log[1])))
  ELSE colorize(loggers[i].color, <<"+", "0">>)

\* println!("{} {} {}", self.label, message, ms_diff); logger is history: the
\* Logger that wrote the line.
line_of(i, message, time) ==
  [ label   |-> loggers[i].label,
    message |-> message,
    ms_diff |-> ms_diff_of(i, time),
    logger  |-> i ]

\* log storing the timestamp before it asks the filter.
log_stamps_first(i, message) ==
  IF ~permitted(i)
  THEN /\ dropped' = Some(i)
       /\ loggers' = [loggers EXCEPT ![i].last_log = Some(now)]
       /\ UNCHANGED <<sink, now>>
  ELSE /\ \E time \in now..MaxTime :
            \E stamp \in time..MaxTime :
              /\ sink' = Some(line_of(i, message, time))
              /\ loggers' = [loggers EXCEPT ![i].last_log = Some(stamp)]
              /\ now' = stamp
       /\ dropped' = None

\* Logger::log on loggers[i]. time is the Instant::now() the elapsed time is
\* taken from, stamp the later Instant::now() that is stored.
log(i, message) ==
  IF ~permitted(i)
  THEN /\ dropped' = Some(i)
       /\ UNCHANGED <<loggers, sink, now>>
  ELSE /\ \E time \in now..MaxTime :
            \E stamp \in time..MaxTime :
              /\ sink' = Some(line_of(i, message, time))
              /\ loggers' = [loggers EXCEPT ![i].last_log = Some(stamp)]
              /\ now' = stamp
       /\ dropped' = None

\* core::fmt::write(&mut msg, args): the pieces of the Arguments in order.
RECURSIVE fmt_write(_)
fmt_write(args) ==
  IF args = <<>> THEN <<>> ELSE Head(args) \o fmt_write(Tail(args))

(***************************************************************************)
(* Inputs.                                                                 *)
(***************************************************************************)
DebugValues == {Ok(<<"a">>), Ok(<<"a", "*">>)}

Labels == {<<"a">>}

Extensions == {<<"b">>}

Messages == {<<"h", "i">>}

FmtArgs == {<< <<"h">>, <<"i">> >>}

HashKeys == 0..(Len(COLORS) - 1)

SpecAlphabet == {"a", "-", "*", " ", ",", "\t"}

LabelAlphabet == {"a", "b", "-"}

pure == <<pc, in_label, rules, verdict>>

(***************************************************************************)
(* The program: construction, logging, extension, the closure, and the     *)
(* environment changing under it. Time passes between any two reads of the *)
(* clock (main.rs sleeps between two calls): log reads a clock that is at  *)
(* or after the last reading. The colour plays no part in filtering or     *)
(* timing, and Spec runs under one hash function of the family; SpecColor  *)
(* below runs under each of them.                                          *)
(***************************************************************************)
Init ==
  /\ env \in DebugValues
  /\ hashKey = 0
  /\ loggers = <<>>
  /\ closure = None
  /\ now = 0
  /\ sink = None
  /\ dropped = None
  /\ pc = "off"
  /\ in_label = <<>>
  /\ rules = <<>>
  /\ verdict = FALSE

\* std::env::set_var / remove_var("DEBUG") by the host program
SetEnv(v) ==
  /\ v # env
  /\ env' = v
  /\ dropped' = None
  /\ UNCHANGED <<hashKey, loggers, closure, now, sink, pure>>

New(label) ==
  /\ Len(loggers) < MaxLoggers
  /\ loggers' = Append(loggers, Logger_new(label, 0))
  /\ dropped' = None
  /\ UNCHANGED <<env, hashKey, closure, now, sink, pure>>

Extend(i, extension) ==
  /\ Len(loggers) < MaxLoggers
  /\ loggers' = Append(loggers, extended(i, extension))
  /\ dropped' = None
  /\ UNCHANGED <<env, hashKey, closure, now, sink, pure>>

Log(i, message) ==
  /\ log(i, message)
  /\ UNCHANGED <<env, hashKey, closure, pure>>

\* log_fmt, and the dbug! macro that expands to it
LogFmt(i, args) ==
  /\ log(i, fmt_write(args))
  /\ UNCHANGED <<env, hashKey, closure, pure>>

\* let f = logger.to_closure(): f borrows loggers[i]; a closure held before is
\* dropped.
ToClosure(i) ==
  /\ closure' = Some(i)
  /\ dropped' = None
  /\ UNCHANGED <<env, hashKey, loggers, now, sink, pure>>

\* Calling the closure to_closure returned: self.log(message) on the borrowed
\* Logger.
CallClosure(message) ==
  /\ closure # None
  /\ log(closure[1], message)
  /\ UNCHANGED <<env, hashKey, closure, pure>>

Next ==
  \/ \E v \in DebugValues : SetEnv(v)
  \/ \E label \in Labels : New(label)
  \/ \E i \in DOMAIN loggers : \E extension \in Extensions : Extend(i, extension)
  \/ \E i \in DOMAIN loggers : \E message \in Messages : Log(i, message)
  \/ \E i \in DOMAIN loggers : \E args \in FmtArgs : LogFmt(i, args)
  \/ \E i \in DOMAIN loggers : ToClosure(i)
  \/ \E message \in Messages : CallClosure(message)

Spec == Init /\ [][Next]_vars

(***************************************************************************)
(* The same program under every hash function of the family, with all its  *)
(* calls made within one tick of the clock.                                *)
(***************************************************************************)
InitColor ==
  /\ env \in DebugValues
  /\ hashKey \in HashKeys
  /\ loggers = <<>>
  /\ closure = None
  /\ now = MaxTime
  /\ sink = None
  /\ dropped = None
  /\ pc = "off"
  /\ in_label = <<>>
  /\ rules = <<>>
  /\ verdict = FALSE

SpecColor == InitColor /\ [][Next]_vars

(***************************************************************************)
(* Filter evaluation on its own: one Logger::new under a DEBUG value drawn *)
(* from every short string, followed by one should_log.                    *)
(***************************************************************************)
InitFilter ==
  /\ env \in {Err(e) : e \in VarError} \cup {Ok(s) : s \in Str(MaxSpecLen, SpecAlphabet)}
  /\ in_label \in Str(MaxLabelLen, LabelAlphabet)
  /\ pc = "start"
  /\ rules = <<>>
  /\ verdict = FALSE
  /\ hashKey = 0
  /\ loggers = <<>>
  /\ closure = None
  /\ now = 0
  /\ sink = None
  /\ dropped = None

\* let filter = parse_filter(); in Logger::new
ParseFilter ==
  /\ pc = "start"
  /\ rules' = parse_filter(env)
  /\ pc' = "parsed"
  /\ UNCHANGED <<env, hashKey, loggers, closure, now, sink, dropped, in_label, verdict>>

\* self.should_log() in Logger::log
ShouldLog ==
  /\ pc = "parsed"
  /\ verdict' = should_log(rules, in_label)
  /\ pc' = "done"
  /\ UNCHANGED <<env, hashKey, loggers, closure, now, sink, dropped, in_label, rules>>

NextFilter == ParseFilter \/ ShouldLog

SpecFilter == InitFilter /\ [][NextFilter]_vars

(***************************************************************************)
(* Properties.                                                             *)
(***************************************************************************)

\* A token, as a negation rule, names the label: it starts with '-' and either
\* has no trailing '*' and is '-' followed by the label, or ends with '*' and the
\* label starts with the text between the '-' and the '*'.
negation_names(token, l) ==
  /\ token # <<>>
  /\ Head(token) = "-"
  /\ \/ token[Len(token)] # "*" /\ token = <<"-">> \o l
     \/ /\ token[Len(token)] = "*"
        /\ Len(token) - 2 <= Len(l)
        /\ \A k \in 1..(Len(token) - 2) : l[k] = token[k + 1]

\* A token, as a positive rule, names the label: it is the label, or it ends
\* with '*' and the label starts with the text before the '*', or it is "*".
positive_names(token, l) ==
  \/ token = l
  \/ /\ token # <<>>
     /\ token[Len(token)] = "*"
     /\ Len(token) - 1 <= Len(l)
     /\ \A k \in 1..(Len(token) - 1) : l[k] = token[k]
  \/ token = <<"*">>

\* C1: negation always wins: when some token of the rule list names the label as
\* a negation rule, should_log returns false, whatever positive tokens the list
\* holds and wherever they stand; and under DEBUG "*,-a" exactly the label "a"
\* is rejected.
C1_NegationWins ==
  pc = "done" =>
    /\ (\E k \in 1..Len(rules) : negation_names(rules[k], in_label)) => verdict = FALSE
    /\ env = Ok(<<"*", ",", "-", "a">>) => (verdict = (in_label # <<"a">>))

\* C1 witness: a match-all token stands before a negation of the label, and the
\* label was rejected.
C1_Witness ==
  /\ pc = "done"
  /\ verdict = FALSE
  /\ \E j, k \in 1..Len(rules) :
       j < k /\ rules[j] = <<"*">> /\ negation_names(rules[k], in_label)

\* C2: default-deny: with DEBUG unset or the empty string, a Logger of any label,
\* the empty label included, is rejected by the filter.
C2_DefaultDeny ==
  (pc = "done" /\ (env[1] = "Err" \/ env = Ok(<<>>))) => verdict = FALSE

\* C3: a suppressed log call is a no-op: a Logger whose label the filter rejects
\* never has a line of its own on the sink and its last_log stays None, whatever
\* calls of log, log_fmt or the closure were made on it.
C3_SuppressedIsNoOp ==
  \A i \in DOMAIN loggers :
    ~should_log(loggers[i].filter, loggers[i].raw_label) =>
      /\ loggers[i].last_log = None
      /\ sink # None => sink[1].logger # i

\* C3 witness: the latest log call was suppressed, after another Logger had
\* written a line; the sink still shows that line and the suppressed Logger has
\* no timestamp.
C3_Witness ==
  /\ dropped # None
  /\ sink # None
  /\ sink[1].logger # dropped[1]
  /\ loggers[dropped[1]].last_log = None

\* A step in which loggers[i] emitted a line: only an emitted call changes the
\* sink, the clock or a stored timestamp.
emit_step(i) ==
  /\ <<loggers, sink, now>>' # <<loggers, sink, now>>
  /\ Len(loggers') = Len(loggers)
  /\ sink' # None
  /\ sink'[1].logger = i

\* C4: timing continuity: the first emitted call of a Logger reports "+0"; every
\* later one reports "+d", d the truncated whole milliseconds from the timestamp
\* stored by the previous emitted call to a clock reading taken during this call,
\* never negative; the call stores the clock reading at its end, and a stored
\* timestamp never moves backwards; log, log_fmt and the closure alike.
C4_TimingContinuity ==
  [][\A i \in DOMAIN loggers :
       /\ loggers[i].last_log # None =>
            /\ loggers'[i].last_log # None
            /\ loggers'[i].last_log[1] >= loggers[i].last_log[1]
       /\ emit_step(i) =>
            /\ loggers'[i].last_log = Some(now')
            /\ now' >= now
            /\ IF loggers[i].last_log = None
               THEN sink'[1].ms_diff = colorize(loggers[i].color, <<"+", "0">>)
               ELSE \E t \in now..now' :
                      /\ t >= loggers[i].last_log[1]
                      /\ sink'[1].ms_diff =
                           colorize(loggers[i].color,
                                    <<"+">> \o to_decimal((t - loggers[i].last_log[1]) \div TicksPerMs))
    ]_vars

\* C4 witness: the Logger the closure borrows has emitted a later line, which
\* reports one whole millisecond.
C4_Witness ==
  /\ closure # None
  /\ sink # None
  /\ sink[1].logger = closure[1]
  /\ sink[1].ms_diff = colorize(loggers[closure[1]].color, <<"+", "1">>)

\* C5: extension independence: a step that constructs a Logger leaves every
\* existing Logger as it was, and the new Logger has no timestamp and, when it
\* comes from extend, the parent's label, ":" and the suffix as its label; any
\* other step changes at most one Logger, the one that emitted a line, and only
\* its last_log.
C5_ExtensionIndependence ==
  [][/\ Len(loggers') >= Len(loggers)
     /\ \A i \in DOMAIN loggers :
          /\ [loggers'[i] EXCEPT !.last_log = loggers[i].last_log] = loggers[i]
          /\ loggers'[i] # loggers[i] =>
               /\ sink' # None
               /\ sink'[1].logger = i
               /\ \A j \in DOMAIN loggers : j # i => loggers'[j] = loggers[j]
     /\ Len(loggers') > Len(loggers) =>
          LET made == loggers'[Len(loggers')]
          IN  /\ loggers' = Append(loggers, made)
              /\ made.last_log = None
              /\ made.parent # 0 =>
                   \E extension \in Extensions :
                     made.raw_label = loggers[made.parent].raw_label \o <<":">> \o extension
    ]_vars

\* C5 witness: a Logger made by extend and its parent have both logged, and hold
\* different timestamps.
C5_Witness ==
  \E c \in DOMAIN loggers :
    /\ loggers[c].parent # 0
    /\ loggers[c].last_log # None
    /\ loggers[loggers[c].parent].last_log # None
    /\ loggers[c].last_log # loggers[loggers[c].parent].last_log

\* C6: filter snapshot: a Logger's rule list is the tokenisation of DEBUG as it
\* was at the Logger's construction, for good; the Logger emits only if that
\* tokenisation accepts its label and has a call suppressed only if it rejects
\* it, so no Logger has both emitted and been suppressed, whatever DEBUG is now.
C6_FilterSnapshot ==
  \A i \in DOMAIN loggers :
    LET accepted == should_log(parse_filter(loggers[i].debug), loggers[i].raw_label)
    IN  /\ loggers[i].filter = parse_filter(loggers[i].debug)
        /\ loggers[i].last_log # None => accepted
        /\ (sink # None /\ sink[1].logger = i) => accepted
        /\ dropped = Some(i) => (~accepted /\ loggers[i].last_log = None)

\* C6 witness: a Logger has just had a log call suppressed while DEBUG holds a
\* value, other than the one it was constructed under, that accepts its label.
C6_Witness ==
  /\ dropped # None
  /\ loggers[dropped[1]].debug # env
  /\ should_log(parse_filter(env), loggers[dropped[1]].raw_label)

\* The token list the tokenisation policy gives: split on spaces when there is a
\* space, else on commas when there is a comma, else the whole string; in all
\* three cases each token trimmed, and dropped when empty.
reference_tokens(debug) ==
  trimmed_non_empty(
    IF contains(debug, " ") THEN split(debug, " ")
    ELSE IF contains(debug, ",") THEN split(debug, ",")
    ELSE <<debug>>)

\* C7: tokenisation: for every specification string parse_filter returns the
\* reference token list, so the rule list holds no empty and no untrimmed token.
C7_Tokenisation ==
  (pc # "start" /\ env[1] = "Ok") =>
    /\ rules = reference_tokens(env[2])
    /\ \A k \in 1..Len(rules) : rules[k] # <<>> /\ trim(rules[k]) = rules[k]

\* C8: a rule list of one positive token P accepts a label L iff L starts with P
\* less its trailing '*' when P ends with '*', and iff L equals P otherwise.
C8_WildcardVersusExact ==
  (pc = "done" /\ Len(rules) = 1 /\ ~starts_with(rules[1], <<"-">>)) =>
    LET P == rules[1]
    IN  IF P # <<>> /\ P[Len(P)] = "*"
        THEN verdict = (/\ Len(P) - 1 <= Len(in_label)
                        /\ \A k \in 1..(Len(P) - 1) : in_label[k] = P[k])
        ELSE verdict = (in_label = P)

\* C8 witness: the single token "a" was evaluated against the label "ab", which
\* it does not accept.
C8_Witness ==
  /\ pc = "done"
  /\ rules = << <<"a">> >>
  /\ in_label = <<"a", "b">>
  /\ verdict = FALSE

\* The palette entry's three channels, read from its hex digits.
channel(entry, k) == Len(HexDigits) * hex_value(entry[2 * k]) + hex_value(entry[2 * k + 1])

\* C9: colour determinism and immutability: in every state every Logger's colour
\* is the colour its label alone gives, so two Loggers of one label agree whatever
\* DEBUG was at their construction and whatever was called since; the colour is
\* the conversion of a palette entry, which does not fail, whose cube sum fits in
\* a u8, and which lies in 16..231.
C9_ColourDeterminism ==
  /\ \A i, j \in DOMAIN loggers :
       loggers[i].raw_label = loggers[j].raw_label => loggers[i].color = loggers[j].color
  /\ \A i \in DOMAIN loggers :
       LET entry == COLORS[((hashKey + label_code(loggers[i].raw_label)) % Len(COLORS)) + 1]
           sum == 16 + 36 * scale_to_ansi(channel(entry, 1))
                     + 6 * scale_to_ansi(channel(entry, 2))
                     + scale_to_ansi(channel(entry, 3))
       IN  /\ ansi_256_from_hex(entry)[1] = "Ok"
           /\ sum <= 255
           /\ loggers[i].color = sum
           /\ loggers[i].color \in 16..231
           /\ loggers[i].label = colorize(loggers[i].color, loggers[i].raw_label)

\* C9 witness: two Loggers of one label, constructed under different DEBUG
\* values, one of which has logged since, hold the same colour.
C9_Witness ==
  \E i, j \in DOMAIN loggers :
    /\ i # j
    /\ loggers[i].raw_label = loggers[j].raw_label
    /\ loggers[i].debug # loggers[j].debug
    /\ loggers[i].last_log # None
    /\ loggers[i].color = loggers[j].color

\* C10: inclusion comes only from positive rules: should_log returns true only if
\* some token that does not start with '-' names the label as a positive rule.
C10_InclusionOnlyFromPositive ==
  (pc = "done" /\ verdict) =>
    \E k \in 1..Len(rules) :
      /\ ~(rules[k] # <<>> /\ Head(rules[k]) = "-")
      /\ positive_names(rules[k], in_label)

====
